---- MODULE Spec2Model ----
(***************************************************************************)
(* Federation synchronisation of cannect: the Jetstream polling edge       *)
(* function (supabase/migrations/20251219000000_bluesky_federation.sql,    *)
(* lines 155-781), its per-collection mirror handlers and cursor store,    *)
(* and the outbound write-through agent (lib/services/atproto-agent, of    *)
(* which the repository holds only the callers).                           *)
(***************************************************************************)
EXTENDS Integers, Sequences, FiniteSets, Bags, TLC

(***************************************************************************)
(* Bounds of the model.                                                    *)
(***************************************************************************)
\* number of events the remote stream delivers in a behaviour, over all cycles
MaxEvents == 3
\* number of polling cycles (invocations of serve) in a behaviour
MaxCycles == 2
\* time_us values range over 1..MaxTime; 0 stands for a missing time_us
MaxTime == 3
\* likes_count / reposts_count / ... / followers_count of every row at the start
InitCount == 1

(***************************************************************************)
(* Strings.  A string is modelled by its name; what the code asks of a     *)
(* string (includes(CANNECT_DOMAIN), equality with a stored at_uri or did) *)
(* is given per name.                                                      *)
(***************************************************************************)
\* undefined / null / absent field
None == ""
\* a value of a uri field that is not a string (the payload is `any`)
NotAString == "#not-a-string"

\* at_uri of posts row 1: local content, inside the local namespace
LocalPostUri == "at://alice.cannect.space/app.bsky.feed.post/p1"
\* at_uri of posts row 2: a DID-authority URI, it does not contain the domain
PlcPostUri == "at://did:plc:bob/app.bsky.feed.post/p2"
\* inside the local namespace, but no posts row has it (the post was deleted)
GoneUri == "at://alice.cannect.space/app.bsky.feed.post/gone"
\* outside the local namespace, no posts row has it
ExtUri == "at://did:plc:ext/app.bsky.feed.post/x"

Uris == {LocalPostUri, PlcPostUri, GoneUri, ExtUri}

\* uri.includes(CANNECT_DOMAIN)
InDomain_always(uri) == uri \in Uris

InDomain(uri) == uri \in {LocalPostUri, GoneUri}

\* did of profiles row 1 (a local user), and a did no profiles row has
LocalDid == "did:plc:alice"
UnknownDid == "did:plc:nobody"
\* a remote actor
ActorDid == "did:plc:carol"
\* the dids that act in events
Actors == {ActorDid, LocalDid}

PostIds == {1, 2}
ProfileIds == {1}

LIKE == "app.bsky.feed.like"
REPOST == "app.bsky.feed.repost"
POST == "app.bsky.feed.post"
FOLLOW == "app.bsky.graph.follow"

Times == 0..MaxTime

VARIABLES
    db,              \* the tables: posts, profiles, federated_interactions,
                     \* notifications, jetstream_cursor
    stream,          \* the events the remote stream can deliver in this behaviour
    pc,              \* position of serve: "idle", "loop", "done", "failed"
    cycles,          \* number of invocations of serve so far
    delivered,       \* number of events the stream has delivered so far
    cursor,          \* serve: const cursor
    latestCursor,    \* serve: let latestCursor
    processedCount,  \* serve: let processedCount
    idx,             \* serve: number of events the for loop has consumed; the
                     \* batch ends where the loop ends, so events.length is the
                     \* value of idx when the cursor is committed
    event,           \* serve: the loop variable, the event consumed last
    failedAt,        \* time_us of the events of this cycle whose processing threw
    pre,             \* posts, profiles and federated_interactions as they stood
                     \* when this cycle started
    response,        \* the JSON body of the last Response
    pds,             \* the record URIs the PDS holds in the local user's repository
    outbound,        \* the outbound agent: its position, the action it performs,
                     \* the record URI the PDS issued, what the caller got back
    fetch,           \* serve: the request to the stream, and whether the abort
                     \* timer is armed
    runs,            \* the invocations of serve that run side by side, each with
                     \* its own locals
    text             \* serve: const text, the body of the response as its lines

vars == <<db, stream, pc, cycles, delivered, cursor, latestCursor, processedCount,
          idx, event, failedAt, pre, response, pds, outbound, fetch, runs,
          text>>

(***************************************************************************)
(* Events of the remote stream.                                            *)
(***************************************************************************)
NoRecord ==
    [has |-> FALSE, subject_uri |-> None, subject_did |-> None,
     parent |-> None, root |-> None, embed |-> None]

\* record of a like or a repost: subject = {uri, cid}
SubjectRecord(uri) == [NoRecord EXCEPT !.has = TRUE, !.subject_uri = uri]

\* record of a follow: subject is a bare did
FollowRecord(did) == [NoRecord EXCEPT !.has = TRUE, !.subject_did = did]

\* record of a post: reply.parent.uri, reply.root.uri, embed.record.uri
PostRecord(parent, root, embed) ==
    [NoRecord EXCEPT !.has = TRUE, !.parent = parent, !.root = root, !.embed = embed]

Commit(did, t, collection, operation, rkey, record) ==
    [kind |-> "commit", did |-> did, time_us |-> t, collection |-> collection,
     operation |-> operation, rkey |-> rkey, record |-> record]

\* an event before the loop has consumed any
NoEvent == [kind |-> "none", did |-> None, time_us |-> 0, collection |-> None,
            operation |-> None, rkey |-> None, record |-> NoRecord]

\* `at://${actorDid}/${collection}/${rkey}`, and the same with `#quote` appended
AtUri(actorDid, collection, rkey) == <<actorDid, collection, rkey, "">>
QuoteUri_plain(interactionUri) == interactionUri

QuoteUri(interactionUri) == [interactionUri EXCEPT ![4] = "#quote"]

(***************************************************************************)
(* Storage.  A table without a visible uniqueness constraint is a bag of   *)
(* rows.                                                                   *)
(***************************************************************************)
\* federated_interactions rows with .eq("at_uri", uri)
RowsAt(d, uri) == {r \in BagToSet(d.federated_interactions) : r.at_uri = uri}

\* number of federated_interactions rows whose at_uri is uri
CountAt(d, uri) ==
    BagCardinality([r \in RowsAt(d, uri) |-> d.federated_interactions[r]])

\* number of federated_interactions rows of one type recorded against one subject
CountFor(d, type, postId, userId) ==
    LET rows == {r \in BagToSet(d.federated_interactions) :
                    /\ r.interaction_type = type
                    /\ r.post_id = postId
                    /\ r.target_user_id = userId}
    IN  BagCardinality([r \in rows |-> d.federated_interactions[r]])

\* .from("federated_interactions").select("id").eq("at_uri", uri).maybeSingle()
Existing_never(d, uri) == FALSE

Existing(d, uri) == RowsAt(d, uri) # {}

\* .from("federated_interactions").insert(row)
Insert(d, row) ==
    [d EXCEPT !.federated_interactions = @ (+) SetToBag({row})]

\* .from("federated_interactions").delete().eq("at_uri", uri): no error when no
\* row matches
Delete(d, uri) ==
    [d EXCEPT !.federated_interactions =
        [r \in {x \in BagToSet(@) : x.at_uri # uri} |-> @[r]]]

\* .from("posts").select("id, user_id").eq("at_uri", uri).single(): 0 when no row
FindPost_first(d, uri) ==
    IF \E p \in PostIds : d.posts[p].at_uri = uri
    THEN CHOOSE p \in PostIds : d.posts[p].at_uri = uri
    ELSE CHOOSE p \in PostIds : \A q \in PostIds : p <= q

FindPost(d, uri) ==
    IF \E p \in PostIds : d.posts[p].at_uri = uri
    THEN CHOOSE p \in PostIds : d.posts[p].at_uri = uri
    ELSE 0

\* .from("profiles").select("id").eq("did", did).single(): 0 when no row
FindProfile(d, did) ==
    IF \E u \in ProfileIds : d.profiles[u].did = did
    THEN CHOOSE u \in ProfileIds : d.profiles[u].did = did
    ELSE 0

InteractionRow(type, postId, userId, actorDid, uri) ==
    [interaction_type |-> type, post_id |-> postId, target_user_id |-> userId,
     actor_did |-> actorDid, at_uri |-> uri]

(***************************************************************************)
(* The counter functions of the database (rpc).  Their bodies are not in   *)
(* the repository; section 4.4 of the specification gives them: increment  *)
(* by one, decrement by one clamped at a floor of zero.                    *)
(***************************************************************************)
increment(n) == n + 1

decrement_unclamped(n) == n - 1

decrement(n) == IF n > 0 THEN n - 1 ELSE 0

increment_post_likes(d, p) == [d EXCEPT !.posts[p].likes_count = increment(@)]
decrement_post_likes(d, p) == [d EXCEPT !.posts[p].likes_count = decrement(@)]
increment_post_reposts(d, p) == [d EXCEPT !.posts[p].reposts_count = increment(@)]
decrement_post_reposts(d, p) == [d EXCEPT !.posts[p].reposts_count = decrement(@)]
increment_post_replies(d, p) == [d EXCEPT !.posts[p].replies_count = increment(@)]
increment_post_quotes(d, p) == [d EXCEPT !.posts[p].quotes_count = increment(@)]
increment_profile_followers(d, u) ==
    [d EXCEPT !.profiles[u].followers_count = increment(@)]
decrement_profile_followers(d, u) ==
    [d EXCEPT !.profiles[u].followers_count = decrement(@)]

(***************************************************************************)
(* Notifications and the actor profile cache.  fetchOk is the answer of    *)
(* the Bluesky public API to a lookup made while this event is handled:    *)
(* TRUE a profile, FALSE a status that is not OK or a network error.       *)
(***************************************************************************)
\* lines 738-781.  A cache entry is "fresh" while Date.now() - cached_at is
\* below PROFILE_CACHE_TTL_MS and "stale" from then on.  The result names
\* where the actor came from: the cache row, the API, or null; lookups is the
\* number of requests made to BSKY_PUBLIC_API.
getBlueskyProfile_uncached(d, did, fetchOk) ==
    IF fetchOk
    THEN [actor |-> "fetched", lookups |-> 1,
          db |-> [d EXCEPT !.bluesky_profile_cache[did] = "fresh"]]
    ELSE [actor |-> "null", lookups |-> 1, db |-> d]

getBlueskyProfile(d, did, fetchOk) ==
    IF d.bluesky_profile_cache[did] = "fresh"
    THEN [actor |-> "cached", lookups |-> 0, db |-> d]
    ELSE IF fetchOk
    THEN [actor |-> "fetched", lookups |-> 1,
          db |-> [d EXCEPT !.bluesky_profile_cache[did] = "fresh"]]
    ELSE [actor |-> "null", lookups |-> 1, db |-> d]

\* lines 711-736.  A cache row has the columns handle, display_name, avatar;
\* a fetched profile has the fields handle, displayName, avatar.
createExternalNotification_skips(d, fetchOk, userId, actorDid, reason, postId) ==
    LET got == getBlueskyProfile(d, actorDid, fetchOk)
        actor == got.actor
    IN  IF actor = "null" THEN got.db
        ELSE [got.db EXCEPT !.notifications = @ (+) SetToBag({
                [user_id |-> userId, actor_did |-> actorDid,
                 actor_handle |-> "handle",
                 actor_display_name |-> IF actor = "fetched" THEN "displayName" ELSE None,
                 actor_avatar |-> "avatar",
                 reason |-> reason, post_id |-> postId, is_external |-> TRUE]})]

createExternalNotification(d, fetchOk, userId, actorDid, reason, postId) ==
    LET got == getBlueskyProfile(d, actorDid, fetchOk)
        actor == got.actor
    IN  [got.db EXCEPT !.notifications = @ (+) SetToBag({
            [user_id |-> userId, actor_did |-> actorDid,
             actor_handle |-> IF actor = "null" THEN "did.slice(0,20)" ELSE "handle",
             actor_display_name |-> IF actor = "fetched" THEN "displayName" ELSE None,
             actor_avatar |-> IF actor = "null" THEN None ELSE "avatar",
             reason |-> reason, post_id |-> postId, is_external |-> TRUE]})]

(***************************************************************************)
(* Relevance check.                                                        *)
(***************************************************************************)
\* x?.includes(CANNECT_DOMAIN) raises a TypeError when x is neither undefined
\* nor a string
IncludesThrows(uri) == uri = NotAString

\* isRelevantToCannect raises instead of returning: the uri fields are read in
\* the order subject, reply.parent, reply.root, embed.record, and a field is
\* read only when no earlier one returned true
RelevanceThrows(e) ==
    LET r == e.record
    IN  /\ e.kind = "commit"
        /\ r.has
        /\ \/ IncludesThrows(r.subject_uri)
           \/ /\ ~InDomain(r.subject_uri)
              /\ \/ IncludesThrows(r.parent)
                 \/ /\ ~InDomain(r.parent)
                    /\ \/ IncludesThrows(r.root)
                       \/ /\ ~InDomain(r.root)
                          /\ IncludesThrows(r.embed)

isRelevantToCannect(e) ==
    LET r == e.record
    IN  /\ e.kind = "commit"
        /\ r.has
        /\ \/ InDomain(r.subject_uri)
           \/ InDomain(r.parent)
           \/ InDomain(r.root)
           \/ InDomain(r.embed)
           \/ e.collection = FOLLOW

(***************************************************************************)
(* The handlers: each maps the tables before the event to the tables after.*)
(***************************************************************************)
handleLikeEvent_unchecked(d, fetchOk, actorDid, operation, record, rkey) ==
    LET subjectUri == record.subject_uri
        post == FindPost(d, subjectUri)
        interactionUri == AtUri(actorDid, LIKE, rkey)
    IN  IF subjectUri = None \/ ~InDomain(subjectUri) THEN d
        ELSE IF post = 0 THEN d
        ELSE IF operation = "create" THEN
            createExternalNotification(
                increment_post_likes(
                    Insert(d, InteractionRow("like", post, 0, actorDid, interactionUri)),
                    post),
                fetchOk, d.posts[post].user_id, actorDid, "like", post)
        ELSE IF operation = "delete" THEN
            decrement_post_likes(Delete(d, interactionUri), post)
        ELSE d

handleLikeEvent(d, fetchOk, actorDid, operation, record, rkey) ==
    LET subjectUri == record.subject_uri
        post == FindPost(d, subjectUri)
        interactionUri == AtUri(actorDid, LIKE, rkey)
    IN  IF subjectUri = None \/ ~InDomain(subjectUri) THEN d
        ELSE IF post = 0 THEN d
        ELSE IF operation = "create" THEN
            IF Existing(d, interactionUri) THEN d
            ELSE createExternalNotification(
                    increment_post_likes(
                        Insert(d, InteractionRow("like", post, 0, actorDid, interactionUri)),
                        post),
                    fetchOk, d.posts[post].user_id, actorDid, "like", post)
        ELSE IF operation = "delete" THEN
            decrement_post_likes(Delete(d, interactionUri), post)
        ELSE d

handleRepostEvent(d, fetchOk, actorDid, operation, record, rkey) ==
    LET subjectUri == record.subject_uri
        post == FindPost(d, subjectUri)
        interactionUri == AtUri(actorDid, REPOST, rkey)
    IN  IF subjectUri = None \/ ~InDomain(subjectUri) THEN d
        ELSE IF post = 0 THEN d
        ELSE IF operation = "create" THEN
            IF Existing(d, interactionUri) THEN d
            ELSE createExternalNotification(
                    increment_post_reposts(
                        Insert(d, InteractionRow("repost", post, 0, actorDid, interactionUri)),
                        post),
                    fetchOk, d.posts[post].user_id, actorDid, "repost", post)
        ELSE IF operation = "delete" THEN
            decrement_post_reposts(Delete(d, interactionUri), post)
        ELSE d

\* the reply half of handlePostEvent
handleReply(d, fetchOk, actorDid, record, interactionUri) ==
    LET parentUri == record.parent
        parentPost == FindPost(d, parentUri)
    IN  IF parentUri = None \/ ~InDomain(parentUri) THEN d
        ELSE IF parentPost = 0 THEN d
        ELSE IF Existing(d, interactionUri) THEN d
        ELSE createExternalNotification(
                increment_post_replies(
                    Insert(d, InteractionRow("reply", parentPost, 0, actorDid, interactionUri)),
                    parentPost),
                fetchOk, d.posts[parentPost].user_id, actorDid, "reply", parentPost)

\* the quote half of handlePostEvent
handleQuote(d, fetchOk, actorDid, record, interactionUri) ==
    LET quotedUri == record.embed
        quotedPost == FindPost(d, quotedUri)
        quoteInteractionUri == QuoteUri(interactionUri)
    IN  IF quotedUri = None \/ ~InDomain(quotedUri) THEN d
        ELSE IF quotedPost = 0 THEN d
        ELSE IF Existing(d, quoteInteractionUri) THEN d
        ELSE createExternalNotification(
                increment_post_quotes(
                    Insert(d, InteractionRow("quote", quotedPost, 0, actorDid,
                                             quoteInteractionUri)),
                    quotedPost),
                fetchOk, d.posts[quotedPost].user_id, actorDid, "quote", quotedPost)

handlePostEvent(d, fetchOk, actorDid, operation, record, rkey) ==
    LET interactionUri == AtUri(actorDid, POST, rkey)
    IN  IF operation # "create" THEN d
        ELSE handleQuote(handleReply(d, fetchOk, actorDid, record, interactionUri),
                         fetchOk, actorDid, record, interactionUri)

handleFollowEvent_upsert(d, fetchOk, actorDid, operation, record, rkey) ==
    LET subjectDid == record.subject_did
        profile == FindProfile(d, subjectDid)
        interactionUri == AtUri(actorDid, FOLLOW, rkey)
    IN  IF subjectDid = None THEN d
        ELSE IF profile = 0 THEN d
        ELSE IF operation # "delete" THEN
            IF Existing(d, interactionUri) THEN d
            ELSE createExternalNotification(
                    increment_profile_followers(
                        Insert(d, InteractionRow("follow", 0, profile, actorDid, interactionUri)),
                        profile),
                    fetchOk, profile, actorDid, "follow", 0)
        ELSE decrement_profile_followers(Delete(d, interactionUri), profile)

handleFollowEvent(d, fetchOk, actorDid, operation, record, rkey) ==
    LET subjectDid == record.subject_did
        profile == FindProfile(d, subjectDid)
        interactionUri == AtUri(actorDid, FOLLOW, rkey)
    IN  IF subjectDid = None THEN d
        ELSE IF profile = 0 THEN d
        ELSE IF operation = "create" THEN
            IF Existing(d, interactionUri) THEN d
            ELSE createExternalNotification(
                    increment_profile_followers(
                        Insert(d, InteractionRow("follow", 0, profile, actorDid, interactionUri)),
                        profile),
                    fetchOk, profile, actorDid, "follow", 0)
        ELSE IF operation = "delete" THEN
            decrement_profile_followers(Delete(d, interactionUri), profile)
        ELSE d

processEvent(d, fetchOk, e) ==
    IF e.kind # "commit" THEN d
    ELSE IF e.collection = LIKE THEN
        handleLikeEvent(d, fetchOk, e.did, e.operation, e.record, e.rkey)
    ELSE IF e.collection = REPOST THEN
        handleRepostEvent(d, fetchOk, e.did, e.operation, e.record, e.rkey)
    ELSE IF e.collection = POST THEN
        handlePostEvent(d, fetchOk, e.did, e.operation, e.record, e.rkey)
    ELSE IF e.collection = FOLLOW THEN
        handleFollowEvent(d, fetchOk, e.did, e.operation, e.record, e.rkey)
    ELSE d

(***************************************************************************)
(* What the remote stream can deliver.  The interactions of the four       *)
(* collections touch disjoint keys and counters, so a behaviour draws its  *)
(* events from the universe of one collection.                             *)
(***************************************************************************)
LikeEvents ==
    {Commit(ActorDid, MaxTime, LIKE, "create", "r1", SubjectRecord(LocalPostUri)),
     Commit(ActorDid, MaxTime, LIKE, "delete", "r1", SubjectRecord(LocalPostUri)),
     Commit(ActorDid, MaxTime, LIKE, "delete", "r1", NoRecord),
     Commit(ActorDid, MaxTime, LIKE, "create", "r2", SubjectRecord(LocalPostUri)),
     Commit(ActorDid, MaxTime, LIKE, "create", "r3", SubjectRecord(ExtUri)),
     Commit(ActorDid, MaxTime, LIKE, "create", "r4", SubjectRecord(PlcPostUri)),
     Commit(ActorDid, MaxTime, LIKE, "create", "r5", SubjectRecord(GoneUri)),
     Commit(ActorDid, MaxTime, LIKE, "create", "r6", SubjectRecord(NotAString))}

RepostEvents ==
    {Commit(ActorDid, MaxTime, REPOST, "create", "r1", SubjectRecord(LocalPostUri)),
     Commit(ActorDid, MaxTime, REPOST, "delete", "r1", SubjectRecord(LocalPostUri)),
     Commit(ActorDid, MaxTime, REPOST, "delete", "r1", NoRecord),
     Commit(ActorDid, MaxTime, REPOST, "create", "r2", SubjectRecord(LocalPostUri)),
     Commit(ActorDid, MaxTime, REPOST, "create", "r3", SubjectRecord(ExtUri)),
     Commit(ActorDid, MaxTime, REPOST, "create", "r4", SubjectRecord(PlcPostUri))}

PostEvents ==
    {Commit(ActorDid, MaxTime, POST, "create", "r1",
            PostRecord(LocalPostUri, LocalPostUri, None)),
     Commit(ActorDid, MaxTime, POST, "create", "r2",
            PostRecord(None, None, LocalPostUri)),
     Commit(ActorDid, MaxTime, POST, "create", "r3",
            PostRecord(LocalPostUri, LocalPostUri, LocalPostUri)),
     Commit(ActorDid, MaxTime, POST, "create", "r4",
            PostRecord(ExtUri, LocalPostUri, None)),
     Commit(ActorDid, MaxTime, POST, "create", "r5",
            PostRecord(ExtUri, ExtUri, PlcPostUri)),
     Commit(ActorDid, MaxTime, POST, "delete", "r1",
            PostRecord(LocalPostUri, LocalPostUri, None)),
     Commit(ActorDid, MaxTime, POST, "delete", "r1", NoRecord)}

FollowEvents ==
    {Commit(ActorDid, MaxTime, FOLLOW, "create", "r1", FollowRecord(LocalDid)),
     Commit(ActorDid, MaxTime, FOLLOW, "delete", "r1", FollowRecord(LocalDid)),
     Commit(ActorDid, MaxTime, FOLLOW, "delete", "r1", NoRecord),
     Commit(ActorDid, MaxTime, FOLLOW, "create", "r2", FollowRecord(LocalDid)),
     Commit(ActorDid, MaxTime, FOLLOW, "create", "r3", FollowRecord(UnknownDid)),
     [NoEvent EXCEPT !.kind = "identity", !.did = ActorDid, !.time_us = MaxTime]}

\* a create and an update of one record, in each collection
UpdateEvents ==
    {Commit(ActorDid, MaxTime, LIKE, op, "r1", SubjectRecord(LocalPostUri)) :
        op \in {"create", "update"}}
    \cup {Commit(ActorDid, MaxTime, REPOST, op, "r1", SubjectRecord(LocalPostUri)) :
        op \in {"create", "update"}}
    \cup {Commit(ActorDid, MaxTime, POST, op, "r1",
                  PostRecord(LocalPostUri, LocalPostUri, LocalPostUri)) :
        op \in {"create", "update"}}
    \cup {Commit(ActorDid, MaxTime, FOLLOW, op, "r1", FollowRecord(LocalDid)) :
        op \in {"create", "update"}}

\* record keys the PDS can issue to the local user
OutKeys == {"o1"}

\* the echoes of the local user's own likes and reposts of the local post, and
\* a remote actor's like of the same post
EchoEvents ==
    {Commit(LocalDid, MaxTime, c, "create", k, SubjectRecord(LocalPostUri)) :
        c \in {LIKE, REPOST}, k \in OutKeys}
    \cup {Commit(ActorDid, MaxTime, LIKE, "create", "r1", SubjectRecord(LocalPostUri))}

\* events that differ in time_us: one relevant, one irrelevant, one that throws
CursorEvents ==
    {Commit(ActorDid, t, LIKE, "create", "r1", SubjectRecord(u)) :
        t \in Times, u \in {LocalPostUri, ExtUri, NotAString}}

(***************************************************************************)
(* The state after deployment.                                             *)
(***************************************************************************)
InitialTables(cursor_time_us) ==
    [posts |->
        [p \in PostIds |->
            [at_uri |-> IF p = 1 THEN LocalPostUri ELSE PlcPostUri,
             user_id |-> 1,
             likes_count |-> InitCount, reposts_count |-> InitCount,
             replies_count |-> InitCount, quotes_count |-> InitCount]],
     profiles |->
        [u \in ProfileIds |-> [did |-> LocalDid, followers_count |-> InitCount]],
     federated_interactions |-> EmptyBag,
     notifications |-> EmptyBag,
     bluesky_profile_cache |-> [did \in Actors |-> "absent"],
     jetstream_cursor |->
        [cursor_time_us |-> cursor_time_us, events_processed |-> 0,
         last_error |-> None]]

Snapshot(d) ==
    [posts |-> d.posts, profiles |-> d.profiles,
     federated_interactions |-> d.federated_interactions]

\* the agent between two calls; result is what the last call returned
Idle(result) == [at |-> "idle", action |-> None, uri |-> <<>>, result |-> result]

\* the stream carries a record of the local user only once the PDS holds it
Deliverable(e) ==
    e.did = LocalDid => AtUri(e.did, e.collection, e.rkey) \in pds

NoResponse ==
    [success |-> FALSE, eventsReceived |-> 0, eventsProcessed |-> 0,
     cursor |-> 0, error |-> None]

\* no request to the stream has been made
NoFetch == [state |-> "none", timer |-> FALSE]

\* the locals of one invocation of serve that runs beside another
NoRun ==
    [at |-> "idle", cursor |-> 0, latestCursor |-> 0, processedCount |-> 0,
     event |-> NoEvent, insertError |-> FALSE]

Runs == {1, 2}

NoRuns == [i \in Runs |-> NoRun]

InitServe ==
    /\ pc = "idle"
    /\ cycles = 0
    /\ delivered = 0
    /\ cursor = 0
    /\ latestCursor = 0
    /\ processedCount = 0
    /\ idx = 0
    /\ event = NoEvent
    /\ failedAt = {}
    /\ pre = Snapshot(db)
    /\ response = NoResponse
    /\ pds = {}
    /\ outbound = Idle(None)
    /\ fetch = NoFetch
    /\ runs = NoRuns
    /\ text = <<>>

Init ==
    /\ db = InitialTables(1)
    /\ stream \in {LikeEvents, RepostEvents, PostEvents, FollowEvents}
    /\ InitServe

InitUpdate ==
    /\ db = InitialTables(1)
    /\ stream = UpdateEvents
    /\ InitServe

InitCursor ==
    /\ \E c \in Times : db = InitialTables(c)
    /\ stream = CursorEvents
    /\ InitServe

(***************************************************************************)
(* serve: one polling cycle.                                               *)
(***************************************************************************)
\* lines 264-266: if (event.time_us && event.time_us > latestCursor)
AdvanceCursor_unordered(latest, e) ==
    IF e.time_us # 0 THEN e.time_us ELSE latest

AdvanceCursor(latest, e) ==
    IF e.time_us # 0 /\ e.time_us > latest THEN e.time_us ELSE latest

\* lines 198-255: the cursor is loaded and the batch is requested (a request
\* aborted by the timeout is a batch of no events)
Poll ==
    /\ pc \in {"idle", "done", "failed"}
    /\ cycles < MaxCycles
    /\ \E now \in 1..MaxTime :
        cursor' = IF db.jetstream_cursor.cursor_time_us # 0
                  THEN db.jetstream_cursor.cursor_time_us
                  ELSE now
    /\ latestCursor' = cursor'
    /\ processedCount' = 0
    /\ idx' = 0
    /\ event' = NoEvent
    /\ failedAt' = {}
    /\ pre' = Snapshot(db)
    /\ cycles' = cycles + 1
    /\ pc' = "loop"
    /\ response' = NoResponse
    /\ UNCHANGED <<db, stream, delivered, pds, outbound,
                   fetch, runs, text>>

\* lines 205-207, 239-241, 250-252, 306-322: the cursor select fails, or the
\* stream answers with a status that is not OK, or the request fails otherwise
PollFails ==
    /\ pc \in {"idle", "done", "failed"}
    /\ cycles < MaxCycles
    /\ \E error \in {"Cursor fetch failed", "Jetstream error", "fetch failed"} :
        /\ db' = [db EXCEPT !.jetstream_cursor.last_error = error]
        /\ response' = [NoResponse EXCEPT !.error = error]
    /\ cycles' = cycles + 1
    /\ pc' = "failed"
    /\ pre' = Snapshot(db)
    /\ idx' = 0
    /\ event' = NoEvent
    /\ failedAt' = {}
    /\ UNCHANGED <<stream, delivered, cursor, latestCursor, processedCount,
                   pds, outbound,
                   fetch, runs, text>>

\* lines 261-279: one iteration of the loop over events
ProcessNext ==
    /\ pc = "loop"
    /\ fetch.state # "aborted"
    /\ delivered < MaxEvents
    /\ \E e \in stream, fetchOk \in BOOLEAN :
        /\ Deliverable(e)
        /\ event' = e
        /\ latestCursor' = AdvanceCursor(latestCursor, e)
        /\ IF RelevanceThrows(e)
           THEN /\ failedAt' = failedAt \cup {e.time_us}
                /\ UNCHANGED <<db, processedCount>>
           ELSE IF ~isRelevantToCannect(e)
           THEN UNCHANGED <<db, processedCount, failedAt>>
           ELSE /\ db' = processEvent(db, fetchOk, e)
                /\ processedCount' = processedCount + 1
                /\ UNCHANGED failedAt
    /\ idx' = idx + 1
    /\ delivered' = delivered + 1
    /\ UNCHANGED <<stream, pc, cycles, cursor, pre, response, pds, outbound,
                   fetch, runs, text>>

\* lines 281-304: the cursor is committed and the report returned
CommitCursor ==
    /\ pc = "loop"
    /\ db' = [db EXCEPT !.jetstream_cursor =
                [cursor_time_us |-> latestCursor,
                 events_processed |-> processedCount,
                 last_error |-> None]]
    /\ response' = [success |-> TRUE, eventsReceived |-> idx,
                    eventsProcessed |-> processedCount, cursor |-> latestCursor,
                    error |-> None]
    /\ pc' = "done"
    /\ UNCHANGED <<stream, cycles, delivered, cursor, latestCursor,
                   processedCount, idx, event, failedAt, pre, pds, outbound,
                   fetch, runs, text>>

\* line 748: time passes, and the age of a cache entry reaches the TTL
CacheExpires ==
    /\ \E did \in Actors :
        /\ db.bluesky_profile_cache[did] = "fresh"
        /\ db' = [db EXCEPT !.bluesky_profile_cache[did] = "stale"]
    /\ UNCHANGED <<stream, pc, cycles, delivered, cursor, latestCursor,
                   processedCount, idx, event, failedAt, pre, response, pds,
                   outbound,
                   fetch, runs, text>>

Next ==
    \/ Poll
    \/ PollFails
    \/ ProcessNext
    \/ CommitCursor
    \/ CacheExpires

(***************************************************************************)
(* The outbound write-through agent, perform(action, localUserId, target), *)
(* for the actions like and repost of the local post.  Section 4.5 of the  *)
(* specification: the record is written to the PDS; on success the local   *)
(* mirror is created under the record URI the PDS issued and the counter   *)
(* is adjusted, the increment conditional on the insert; on failure the    *)
(* error goes to the caller and nothing local changes.                     *)
(***************************************************************************)
OutCollection(action) == IF action = "like" THEN LIKE ELSE REPOST

\* the local mirror of a record the PDS accepted
MirrorLocally(d, action, uri, post) ==
    IF Existing(d, uri) THEN d
    ELSE IF action = "like"
    THEN increment_post_likes(
            Insert(d, InteractionRow("like", post, 0, LocalDid, uri)), post)
    ELSE increment_post_reposts(
            Insert(d, InteractionRow("repost", post, 0, LocalDid, uri)), post)

\* the write to the PDS succeeds: the PDS issues a record key it has not issued
PerformWrite ==
    /\ outbound.at = "idle"
    /\ \E action \in {"like", "repost"}, k \in OutKeys :
        LET uri == AtUri(LocalDid, OutCollection(action), k)
        IN  /\ uri \notin pds
            /\ pds' = pds \cup {uri}
            /\ outbound' = [at |-> "written", action |-> action, uri |-> uri,
                            result |-> None]
    /\ UNCHANGED <<db, stream, pc, cycles, delivered, cursor, latestCursor,
                   processedCount, idx, event, failedAt, pre, response,
                   fetch, runs, text>>

\* the write to the PDS fails (network error, malformed target reference)
PerformWriteFails_mirrors ==
    /\ outbound.at = "idle"
    /\ \E action \in {"like", "repost"}, k \in OutKeys :
        /\ outbound' = [Idle("error") EXCEPT !.action = action]
        /\ db' = MirrorLocally(db, action, AtUri(LocalDid, OutCollection(action), k), 1)
    /\ UNCHANGED <<stream, pc, cycles, delivered, cursor, latestCursor,
                   processedCount, idx, event, failedAt, pre, response, pds,
                   fetch, runs, text>>

PerformWriteFails ==
    /\ outbound.at = "idle"
    /\ \E action \in {"like", "repost"} :
        outbound' = [Idle("error") EXCEPT !.action = action]
    /\ UNCHANGED <<db, stream, pc, cycles, delivered, cursor, latestCursor,
                   processedCount, idx, event, failedAt, pre, response, pds,
                   fetch, runs, text>>

\* after the remote success the mirror is written and the record reference
\* is returned
PerformMirror ==
    /\ outbound.at = "written"
    /\ db' = MirrorLocally(db, outbound.action, outbound.uri, 1)
    /\ outbound' = [Idle("ok") EXCEPT !.action = outbound.action,
                                      !.uri = outbound.uri]
    /\ UNCHANGED <<stream, pc, cycles, delivered, cursor, latestCursor,
                   processedCount, idx, event, failedAt, pre, response, pds,
                   fetch, runs, text>>

NextOutbound ==
    \/ Poll
    \/ ProcessNext
    \/ CommitCursor
    \/ PerformWrite
    \/ PerformWriteFails
    \/ PerformMirror

InitOutbound ==
    /\ db = InitialTables(1)
    /\ stream = EchoEvents
    /\ InitServe

(***************************************************************************)
(* serve: the request to the stream, step by step (lines 225-253).  The    *)
(* abort timer is armed before fetch and cleared as soon as fetch has      *)
(* resolved, that is when the response headers have arrived; the body is   *)
(* read by response.text() after that.                                     *)
(***************************************************************************)
\* the stream delivers likes of the local post that differ in time_us
FetchEvents ==
    {Commit(ActorDid, t, LIKE, "create", "r1", SubjectRecord(LocalPostUri)) :
        t \in Times}

\* lines 198-235: the cursor is loaded, the timer armed, the request sent
SendRequest ==
    /\ pc \in {"idle", "done", "failed"}
    /\ cycles < MaxCycles
    /\ \E now \in 1..MaxTime :
        cursor' = IF db.jetstream_cursor.cursor_time_us # 0
                  THEN db.jetstream_cursor.cursor_time_us
                  ELSE now
    /\ latestCursor' = cursor'
    /\ processedCount' = 0
    /\ idx' = 0
    /\ event' = NoEvent
    /\ failedAt' = {}
    /\ pre' = Snapshot(db)
    /\ cycles' = cycles + 1
    /\ pc' = "fetching"
    /\ response' = NoResponse
    /\ fetch' = [state |-> "pending", timer |-> TRUE]
    /\ UNCHANGED <<db, stream, delivered, pds, outbound, runs, text>>

\* lines 237-241, 250-252, 306-322: the stream answers with a status that is
\* not OK (the timer has been cleared), or fetch rejects with an error that is
\* not the abort
RequestFails_moves ==
    /\ pc = "fetching"
    /\ fetch.state = "pending"
    /\ \E error \in {"Jetstream error", "fetch failed"} :
        /\ db' = [db EXCEPT !.jetstream_cursor.last_error = error,
                            !.jetstream_cursor.cursor_time_us = 0]
        /\ response' = [NoResponse EXCEPT !.error = error]
        /\ fetch' = [state |-> "error", timer |-> error = "fetch failed"]
    /\ pc' = "failed"
    /\ UNCHANGED <<stream, cycles, delivered, cursor, latestCursor,
                   processedCount, idx, event, failedAt, pre, pds, outbound,
                   runs, text>>

RequestFails ==
    /\ pc = "fetching"
    /\ fetch.state = "pending"
    /\ \E error \in {"Jetstream error", "fetch failed"} :
        /\ db' = [db EXCEPT !.jetstream_cursor.last_error = error]
        /\ response' = [NoResponse EXCEPT !.error = error]
        /\ fetch' = [state |-> "error", timer |-> error = "fetch failed"]
    /\ pc' = "failed"
    /\ UNCHANGED <<stream, cycles, delivered, cursor, latestCursor,
                   processedCount, idx, event, failedAt, pre, pds, outbound,
                   runs, text>>

\* lines 227, 247-249: the timer fires before fetch has resolved; fetch rejects
\* with AbortError and events stays []
RequestTimesOut_fails ==
    /\ pc = "fetching"
    /\ fetch.state = "pending"
    /\ fetch.timer
    /\ fetch' = [state |-> "aborted", timer |-> FALSE]
    /\ db' = [db EXCEPT !.jetstream_cursor.last_error = "AbortError"]
    /\ response' = [NoResponse EXCEPT !.error = "AbortError"]
    /\ pc' = "failed"
    /\ UNCHANGED <<stream, cycles, delivered, cursor, latestCursor,
                   processedCount, idx, event, failedAt, pre, pds,
                   outbound, runs, text>>

RequestTimesOut ==
    /\ pc = "fetching"
    /\ fetch.state = "pending"
    /\ fetch.timer
    /\ fetch' = [state |-> "aborted", timer |-> FALSE]
    /\ pc' = "loop"
    /\ UNCHANGED <<db, stream, cycles, delivered, cursor, latestCursor,
                   processedCount, idx, event, failedAt, pre, response, pds,
                   outbound, runs, text>>

\* lines 232-244: fetch resolves with an OK status, clearTimeout runs, and
\* response.text() waits for the end of the body.  The stream either ends the
\* body ("open") or keeps the connection open for good ("held").
HeadersArrive ==
    /\ pc = "fetching"
    /\ fetch.state = "pending"
    /\ \E state \in {"open", "held"} :
        fetch' = [state |-> state, timer |-> FALSE]
    /\ pc' = "reading"
    /\ UNCHANGED <<db, stream, cycles, delivered, cursor, latestCursor,
                   processedCount, idx, event, failedAt, pre, response, pds,
                   outbound, runs, text>>

\* lines 244-245: the body has ended; its lines are parsed into events
BodyEnds ==
    /\ pc = "reading"
    /\ fetch.state = "open"
    /\ fetch' = [fetch EXCEPT !.state = "closed"]
    /\ pc' = "loop"
    /\ UNCHANGED <<db, stream, cycles, delivered, cursor, latestCursor,
                   processedCount, idx, event, failedAt, pre, response, pds,
                   outbound, runs, text>>

NextFetch ==
    \/ SendRequest
    \/ PollFails
    \/ RequestFails
    \/ RequestTimesOut
    \/ HeadersArrive
    \/ BodyEnds
    \/ ProcessNext
    \/ CommitCursor

InitFetch ==
    /\ \E c \in Times : db = InitialTables(c)
    /\ stream = FetchEvents
    /\ InitServe

(***************************************************************************)
(* Invocations of serve side by side.  serve holds no lock and reads no    *)
(* flag before it loads the cursor, so a request that arrives while        *)
(* another is being served starts a cycle of its own; each await of a      *)
(* handler is a point where the other invocation can run.                  *)
(***************************************************************************)
\* creates that differ in collection and in time_us; the creates of one
\* collection have the same key
RaceEvents ==
    {Commit(ActorDid, t, LIKE, "create", "r1", SubjectRecord(LocalPostUri)) :
        t \in {1, MaxTime}}
    \cup {Commit(ActorDid, t, FOLLOW, "create", "r1", FollowRecord(LocalDid)) :
        t \in {MaxTime - 1}}

\* what a handler has resolved when it reaches its existence check: the
\* subject, the key and the row it is about to insert (a post that both
\* replies and quotes is handled as the reply here)
Target(d, e) ==
    LET r == e.record
        uri == AtUri(e.did, e.collection, e.rkey)
        post == FindPost(d, IF e.collection = POST
                            THEN (IF InDomain(r.parent) THEN r.parent ELSE r.embed)
                            ELSE r.subject_uri)
        profile == FindProfile(d, r.subject_did)
        none == [ok |-> FALSE, type |-> None, post |-> 0, user |-> 0, owner |-> 0,
                 uri |-> uri]
    IN  IF e.kind # "commit" \/ e.operation # "create" THEN none
        ELSE IF e.collection \in {LIKE, REPOST} THEN
            IF r.subject_uri = None \/ ~InDomain(r.subject_uri) \/ post = 0 THEN none
            ELSE [ok |-> TRUE, type |-> IF e.collection = LIKE THEN "like" ELSE "repost",
                  post |-> post, user |-> 0, owner |-> d.posts[post].user_id,
                  uri |-> uri]
        ELSE IF e.collection = POST THEN
            IF post = 0 \/ ~(InDomain(r.parent) \/ InDomain(r.embed)) THEN none
            ELSE [ok |-> TRUE, type |-> IF InDomain(r.parent) THEN "reply" ELSE "quote",
                  post |-> post, user |-> 0, owner |-> d.posts[post].user_id,
                  uri |-> IF InDomain(r.parent) THEN uri ELSE QuoteUri(uri)]
        ELSE IF e.collection = FOLLOW THEN
            IF r.subject_did = None \/ profile = 0 THEN none
            ELSE [ok |-> TRUE, type |-> "follow", post |-> 0, user |-> profile,
                  owner |-> profile, uri |-> uri]
        ELSE none

\* .insert(row) under the uniqueness constraint the storage layer holds on
\* federated_interactions.at_uri (specification, sections 4.3 and 6): the
\* insert of a second row with the same at_uri returns an error
InsertUnique_unconstrained(d, row) == [error |-> FALSE, db |-> Insert(d, row)]

InsertUnique(d, row) ==
    IF Existing(d, row.at_uri)
    THEN [error |-> TRUE, db |-> d]
    ELSE [error |-> FALSE, db |-> Insert(d, row)]

\* the rpc a handler calls after its insert
IncrementFor(d, t) ==
    CASE t.type = "like" -> increment_post_likes(d, t.post)
      [] t.type = "repost" -> increment_post_reposts(d, t.post)
      [] t.type = "reply" -> increment_post_replies(d, t.post)
      [] t.type = "quote" -> increment_post_quotes(d, t.post)
      [] t.type = "follow" -> increment_profile_followers(d, t.user)

OtherVars ==
    <<pc, cycles, cursor, latestCursor, processedCount, idx, event, failedAt,
      pre, response, pds, outbound, fetch, text>>

\* lines 198-210, 259: the invocation loads the cursor
RunLoad(i) ==
    /\ runs[i].at = "idle"
    /\ \E now \in 1..MaxTime :
        LET c == IF db.jetstream_cursor.cursor_time_us # 0
                 THEN db.jetstream_cursor.cursor_time_us
                 ELSE now
        IN  runs' = [runs EXCEPT ![i] =
                        [@ EXCEPT !.at = "loop", !.cursor = c, !.latestCursor = c]]
    /\ UNCHANGED <<db, stream, delivered>>
    /\ UNCHANGED OtherVars

\* lines 261-273 and the handler down to its existence check: a create whose
\* subject resolves stops before the check, any other event is handled whole
RunTake(i) ==
    /\ runs[i].at = "loop"
    /\ delivered < MaxEvents
    /\ \E e \in stream, fetchOk \in BOOLEAN :
        LET latest == AdvanceCursor(runs[i].latestCursor, e)
        IN  IF RelevanceThrows(e) \/ ~isRelevantToCannect(e)
            THEN /\ runs' = [runs EXCEPT ![i] =
                                [@ EXCEPT !.latestCursor = latest, !.event = e]]
                 /\ db' = db
            ELSE IF Target(db, e).ok
            THEN /\ runs' = [runs EXCEPT ![i] =
                                [@ EXCEPT !.latestCursor = latest, !.event = e,
                                          !.at = "check"]]
                 /\ db' = db
            ELSE /\ runs' = [runs EXCEPT ![i] =
                                [@ EXCEPT !.latestCursor = latest, !.event = e,
                                          !.processedCount = @ + 1]]
                 /\ db' = processEvent(db, fetchOk, e)
    /\ delivered' = delivered + 1
    /\ UNCHANGED stream
    /\ UNCHANGED OtherVars

\* lines 436-445: the existence check
RunCheck(i) ==
    /\ runs[i].at = "check"
    /\ runs' = [runs EXCEPT ![i] =
                  IF Existing(db, Target(db, runs[i].event).uri)
                  THEN [@ EXCEPT !.at = "loop", !.processedCount = @ + 1]
                  ELSE [@ EXCEPT !.at = "insert"]]
    /\ UNCHANGED <<db, stream, delivered>>
    /\ UNCHANGED OtherVars

\* lines 448-460: the insert; on insertError the handler returns
RunInsert(i) ==
    /\ runs[i].at = "insert"
    /\ LET t == Target(db, runs[i].event)
           res == InsertUnique(db, InteractionRow(t.type, t.post, t.user,
                                                  runs[i].event.did, t.uri))
       IN  /\ db' = res.db
           /\ runs' = [runs EXCEPT ![i] =
                         IF res.error
                         THEN [@ EXCEPT !.at = "loop", !.insertError = TRUE,
                                        !.processedCount = @ + 1]
                         ELSE [@ EXCEPT !.at = "increment"]]
    /\ UNCHANGED <<stream, delivered>>
    /\ UNCHANGED OtherVars

\* lines 463-466, 273: the increment and the notification
RunIncrement(i) ==
    /\ runs[i].at = "increment"
    /\ \E fetchOk \in BOOLEAN :
        LET t == Target(db, runs[i].event)
        IN  db' = createExternalNotification(
                    IncrementFor(db, t), fetchOk, t.owner, runs[i].event.did,
                    t.type, t.post)
    /\ runs' = [runs EXCEPT ![i] =
                  [@ EXCEPT !.at = "loop", !.processedCount = @ + 1]]
    /\ UNCHANGED <<stream, delivered>>
    /\ UNCHANGED OtherVars

\* lines 281-304: the invocation commits its cursor
RunCommit(i) ==
    /\ runs[i].at = "loop"
    /\ db' = [db EXCEPT !.jetstream_cursor =
                [cursor_time_us |-> runs[i].latestCursor,
                 events_processed |-> runs[i].processedCount,
                 last_error |-> None]]
    /\ runs' = [runs EXCEPT ![i] = [@ EXCEPT !.at = "done"]]
    /\ UNCHANGED <<stream, delivered>>
    /\ UNCHANGED OtherVars

NextOverlap ==
    \E i \in Runs :
        \/ RunLoad(i)
        \/ RunTake(i)
        \/ RunCheck(i)
        \/ RunInsert(i)
        \/ RunIncrement(i)
        \/ RunCommit(i)

InitOverlap ==
    /\ db = InitialTables(1)
    /\ stream = RaceEvents
    /\ InitServe

(***************************************************************************)
(* serve: the body of the response and the loop over its events (lines     *)
(* 244-245, 261-279, 329-345).  The body is split into lines; a line that  *)
(* starts with "data: " is parsed as JSON, and the events are processed in *)
(* the order of their lines.                                               *)
(***************************************************************************)
\* a line "data: <json of e>"
DataLine(e) == [data |-> TRUE, json |-> TRUE, event |-> e]
\* a line "data: <text that JSON.parse rejects>"
MalformedLine == [data |-> TRUE, json |-> FALSE, event |-> NoEvent]
\* a line that does not start with "data: ", whatever follows
OtherLine(e) == [data |-> FALSE, json |-> TRUE, event |-> e]

\* the lines the stream sends: one key created, deleted with and without the
\* record, an event whose relevance check throws, a malformed line and a line
\* of another SSE field
BatchLines ==
    {DataLine(Commit(ActorDid, MaxTime, LIKE, "create", "r1", SubjectRecord(LocalPostUri))),
     DataLine(Commit(ActorDid, MaxTime, LIKE, "delete", "r1", SubjectRecord(LocalPostUri))),
     DataLine(Commit(ActorDid, MaxTime, LIKE, "delete", "r1", NoRecord)),
     DataLine(Commit(ActorDid, MaxTime, LIKE, "create", "r6", SubjectRecord(NotAString))),
     MalformedLine,
     OtherLine(Commit(ActorDid, MaxTime, LIKE, "create", "r2", SubjectRecord(LocalPostUri)))}

\* the bodies of at most n lines
BatchTexts(n) == UNION {[1..k -> BatchLines] : k \in 0..n}

\* lines 329-345
parseSSEEvents_stops(t) ==
    LET bad == {k \in 1..Len(t) : t[k].data /\ ~t[k].json}
        upto == IF bad = {} THEN Len(t)
                ELSE (CHOOSE k \in bad : \A j \in bad : k <= j) - 1
        kept == SelectSeq(SubSeq(t, 1, upto), LAMBDA l : l.data /\ l.json)
    IN  [k \in 1..Len(kept) |-> kept[k].event]

parseSSEEvents(t) ==
    LET kept == SelectSeq(t, LAMBDA l : l.data /\ l.json)
    IN  [k \in 1..Len(kept) |-> kept[k].event]

\* lines 198-255: the cursor is loaded, the batch requested, the body read
PollText ==
    /\ pc \in {"idle", "done", "failed"}
    /\ cycles < MaxCycles
    /\ \E now \in 1..MaxTime :
        cursor' = IF db.jetstream_cursor.cursor_time_us # 0
                  THEN db.jetstream_cursor.cursor_time_us
                  ELSE now
    /\ \E t \in BatchTexts(MaxEvents - delivered) :
        /\ text' = t
        /\ delivered' = delivered + Len(t)
    /\ latestCursor' = cursor'
    /\ processedCount' = 0
    /\ idx' = 0
    /\ event' = NoEvent
    /\ failedAt' = {}
    /\ pre' = Snapshot(db)
    /\ cycles' = cycles + 1
    /\ pc' = "loop"
    /\ response' = NoResponse
    /\ UNCHANGED <<db, stream, pds, outbound, fetch, runs>>

\* lines 261-279: one iteration of the loop, on the next event of the batch
ProcessLine ==
    /\ pc = "loop"
    /\ idx < Len(parseSSEEvents(text))
    /\ \E fetchOk \in BOOLEAN :
        LET e == parseSSEEvents(text)[idx + 1]
        IN  /\ event' = e
            /\ latestCursor' = AdvanceCursor(latestCursor, e)
            /\ IF RelevanceThrows(e)
               THEN /\ failedAt' = failedAt \cup {e.time_us}
                    /\ UNCHANGED <<db, processedCount>>
               ELSE IF ~isRelevantToCannect(e)
               THEN UNCHANGED <<db, processedCount, failedAt>>
               ELSE /\ db' = processEvent(db, fetchOk, e)
                    /\ processedCount' = processedCount + 1
                    /\ UNCHANGED failedAt
    /\ idx' = idx + 1
    /\ UNCHANGED <<stream, pc, cycles, delivered, cursor, pre, response, pds,
                   outbound, fetch, runs, text>>

\* lines 279-304: the loop has run through the batch; the cursor is committed
CommitBatch ==
    /\ idx = Len(parseSSEEvents(text))
    /\ CommitCursor

NextBatch ==
    \/ PollText
    \/ ProcessLine
    \/ CommitBatch

InitBatch ==
    /\ db = InitialTables(1)
    /\ stream = {l.event : l \in BatchLines}
    /\ InitServe

(***************************************************************************)
(* The create branch of a handler await by await (lines 436-466, and the   *)
(* same in the other handlers): existence check, insert, rpc increment,    *)
(* notification.  A storage call of supabase-js does not throw, it returns *)
(* {data, error}; the handler looks at the error of the insert only.  The  *)
(* runtime can end an invocation at any await.                             *)
(***************************************************************************)
\* one key that is created and retracted, and a create of another collection
StepEvents ==
    {Commit(ActorDid, MaxTime, LIKE, "create", "r1", SubjectRecord(LocalPostUri)),
     Commit(ActorDid, MaxTime, LIKE, "delete", "r1", SubjectRecord(LocalPostUri)),
     Commit(ActorDid, MaxTime, FOLLOW, "create", "r1", FollowRecord(LocalDid))}

\* lines 448-460: the insert returns an error that is not the violation of the
\* key (the storage is unreachable, another constraint fails); the handler
\* logs it and returns
StepInsertFails_continues(i) ==
    /\ runs[i].at = "insert"
    /\ ~Existing(db, Target(db, runs[i].event).uri)
    /\ runs' = [runs EXCEPT ![i] = [@ EXCEPT !.at = "increment", !.insertError = TRUE]]
    /\ UNCHANGED <<db, stream, delivered>>
    /\ UNCHANGED OtherVars

StepInsertFails(i) ==
    /\ runs[i].at = "insert"
    /\ ~Existing(db, Target(db, runs[i].event).uri)
    /\ runs' = [runs EXCEPT ![i] =
                  [@ EXCEPT !.at = "loop", !.insertError = TRUE,
                            !.processedCount = @ + 1]]
    /\ UNCHANGED <<db, stream, delivered>>
    /\ UNCHANGED OtherVars

\* line 463: the rpc increments the counter
StepIncrement(i) ==
    /\ runs[i].at = "increment"
    /\ db' = IncrementFor(db, Target(db, runs[i].event))
    /\ runs' = [runs EXCEPT ![i] = [@ EXCEPT !.at = "notify"]]
    /\ UNCHANGED <<stream, delivered>>
    /\ UNCHANGED OtherVars

\* line 463: the rpc returns an error; its result is not looked at
StepIncrementFails(i) ==
    /\ runs[i].at = "increment"
    /\ runs' = [runs EXCEPT ![i] = [@ EXCEPT !.at = "notify"]]
    /\ UNCHANGED <<db, stream, delivered>>
    /\ UNCHANGED OtherVars

\* lines 466, 273: the notification is written and the handler returns
StepNotify(i) ==
    /\ runs[i].at = "notify"
    /\ \E fetchOk \in BOOLEAN :
        LET t == Target(db, runs[i].event)
        IN  db' = createExternalNotification(db, fetchOk, t.owner,
                                             runs[i].event.did, t.type, t.post)
    /\ runs' = [runs EXCEPT ![i] =
                  [@ EXCEPT !.at = "loop", !.processedCount = @ + 1]]
    /\ UNCHANGED <<stream, delivered>>
    /\ UNCHANGED OtherVars

\* the runtime ends the invocation while the handler waits at one of its
\* awaits (time limit of the edge function, loss of the worker); the cursor
\* update of lines 282-290 is not reached
StepInterrupted(i) ==
    /\ runs[i].at \in {"check", "insert", "increment", "notify"}
    /\ runs' = [runs EXCEPT ![i] = [@ EXCEPT !.at = "dead"]]
    /\ UNCHANGED <<db, stream, delivered>>
    /\ UNCHANGED OtherVars

NextSteps ==
    \E i \in Runs :
        \/ RunLoad(i)
        \/ RunTake(i)
        \/ RunCheck(i)
        \/ RunInsert(i)
        \/ StepInsertFails(i)
        \/ StepIncrement(i)
        \/ StepIncrementFails(i)
        \/ StepNotify(i)
        \/ StepInterrupted(i)
        \/ RunCommit(i)

InitSteps ==
    /\ db = InitialTables(1)
    /\ stream = StepEvents
    /\ InitServe

Spec == Init /\ [][Next]_vars

SpecOutbound == InitOutbound /\ [][NextOutbound]_vars

SpecCursor == InitCursor /\ [][Next]_vars

SpecOverlap == InitOverlap /\ [][NextOverlap]_vars

\* every step of serve is taken by the runtime once it can be taken; the
\* stream owes nothing
SpecFetch == InitFetch /\ [][NextFetch]_vars /\ WF_vars(NextFetch)

SpecBatch == InitBatch /\ [][NextBatch]_vars

SpecUpdate == InitUpdate /\ [][Next]_vars

SpecSteps == InitSteps /\ [][NextSteps]_vars

(***************************************************************************)
(* Vocabulary of the properties.                                           *)
(***************************************************************************)
\* the idempotency key of an event: the URI of the record it creates or deletes
Key(e) == AtUri(e.did, e.collection, e.rkey)

\* a step of the loop of serve that consumes one event (the event is event')
ConsumesEvent == pc = "loop" /\ idx' = idx + 1

\* the local namespace, and the local content in it
Namespace == {LocalPostUri, GoneUri}
LocalPost == FindPost(InitialTables(0), LocalPostUri)
LocalProfile == FindProfile(InitialTables(0), LocalDid)

\* the interactions a create event asks for: the key, type and subject of each
Interactions(e) ==
    IF e.kind # "commit" \/ ~e.record.has THEN {}
    ELSE IF e.collection \in {LIKE, REPOST} THEN
        IF e.record.subject_uri = LocalPostUri
        THEN {[uri |-> Key(e), post |-> LocalPost, user |-> 0,
               type |-> IF e.collection = LIKE THEN "like" ELSE "repost"]}
        ELSE {}
    ELSE IF e.collection = POST THEN
        (IF e.record.parent = LocalPostUri
         THEN {[uri |-> Key(e), post |-> LocalPost, user |-> 0, type |-> "reply"]}
         ELSE {})
        \cup
        (IF e.record.embed = LocalPostUri
         THEN {[uri |-> QuoteUri(Key(e)), post |-> LocalPost, user |-> 0,
                type |-> "quote"]}
         ELSE {})
    ELSE IF e.collection = FOLLOW /\ e.record.subject_did = LocalDid
    THEN {[uri |-> Key(e), post |-> 0, user |-> LocalProfile, type |-> "follow"]}
    ELSE {}

\* the aggregate counter of one interaction type on one subject
Counter(d, type, post, user) ==
    CASE type = "like" -> d.posts[post].likes_count
      [] type = "repost" -> d.posts[post].reposts_count
      [] type = "reply" -> d.posts[post].replies_count
      [] type = "quote" -> d.posts[post].quotes_count
      [] type = "follow" -> d.profiles[user].followers_count

Subjects ==
    {[type |-> t, post |-> p, user |-> 0] :
        t \in {"like", "repost", "reply", "quote"}, p \in PostIds}
    \cup {[type |-> "follow", post |-> 0, user |-> u] : u \in ProfileIds}

\* the mirror records, the counters and the notifications are what they were
MirrorUnchanged ==
    /\ db'.federated_interactions = db.federated_interactions
    /\ db'.posts = db.posts
    /\ db'.profiles = db.profiles
    /\ db'.notifications = db.notifications

(***************************************************************************)
(* C1.  Idempotent create: after a create event with key K is processed    *)
(* there is exactly one federated_interactions record with key K; when a   *)
(* record with key K exists already (the event was processed before, in    *)
(* this cycle or in an earlier one) processing it again leaves the         *)
(* subject's counter as it is, and when none exists the counter goes up by *)
(* exactly one.  For like, repost, reply, quote and follow.                *)
(***************************************************************************)
C1_IdempotentCreate ==
    [][(ConsumesEvent /\ event'.operation = "create") =>
        \A i \in Interactions(event') :
            /\ CountAt(db', i.uri) = 1
            /\ Counter(db', i.type, i.post, i.user) =
                  Counter(db, i.type, i.post, i.user)
                  + (IF CountAt(db, i.uri) = 0 THEN 1 ELSE 0)]_vars

\* a create event was processed in the second cycle although its record was
\* stored before that cycle started
C1_Witness ==
    /\ cycles = 2
    /\ idx >= 1
    /\ event.operation = "create"
    /\ Interactions(event) # {}
    /\ \A i \in Interactions(event) :
        /\ BagIn(InteractionRow(i.type, i.post, i.user, event.did, i.uri),
                 pre.federated_interactions)
        /\ CountAt(db, i.uri) = 1
        /\ Counter(db, i.type, i.post, i.user) = InitCount + 1

C3_CreateThenDelete ==
    [][(/\ pc = "loop" /\ idx = 1 /\ idx' = 2
        /\ event.collection = LIKE /\ event.operation = "create"
        /\ event.record.subject_uri = LocalPostUri
        /\ event'.collection = LIKE /\ event'.operation = "delete"
        /\ Key(event') = Key(event))
       => /\ db'.posts[LocalPost].likes_count = pre.posts[LocalPost].likes_count
          /\ CountAt(db', Key(event)) = 0]_vars

(***************************************************************************)
(* C4.  A delete without a matching record is a no-op: a like, repost or   *)
(* follow delete whose key has no federated_interactions record deletes    *)
(* nothing and leaves every counter unchanged.                             *)
(***************************************************************************)
C4_DeleteWithoutRecord ==
    [][(/\ ConsumesEvent
        /\ event'.operation = "delete"
        /\ event'.collection \in {LIKE, REPOST, FOLLOW}
        /\ CountAt(db, Key(event')) = 0)
       => MirrorUnchanged]_vars

(***************************************************************************)
(* C5.  Counter/record pairing: for every post or profile and every        *)
(* interaction type, the change of the counter since the start equals the  *)
(* number of federated_interactions records of that type stored for that   *)
(* subject.                                                                *)
(***************************************************************************)
C5_Pairing ==
    \A s \in Subjects :
        Counter(db, s.type, s.post, s.user) - InitCount =
            CountFor(db, s.type, s.post, s.user)

(***************************************************************************)
(* C6.  Counter floor: every aggregate counter is >= 0 in every reachable  *)
(* state.                                                                  *)
(***************************************************************************)
C6_CounterFloor ==
    \A s \in Subjects : Counter(db, s.type, s.post, s.user) >= 0

\* a delete was processed in a cycle that started with the counter at zero
C6_Witness ==
    /\ idx >= 1
    /\ event.operation = "delete"
    /\ event.record.has
    /\ \E s \in Subjects :
        /\ s.type \in {"like", "repost", "follow"}
        /\ Counter(pre, s.type, s.post, s.user) = 0
        /\ Counter(db, s.type, s.post, s.user) = 0
        /\ CountFor(db, s.type, s.post, s.user) = 0
        /\ (s.type = "like") = (event.collection = LIKE)
        /\ (s.type = "repost") = (event.collection = REPOST)
        /\ (s.type = "follow") = (event.collection = FOLLOW)

(***************************************************************************)
(* C7.  Cursor monotonicity: the cursor a cycle commits is >= the cursor   *)
(* it loaded, whatever the time_us of the events (lower than the loaded    *)
(* cursor, or missing).                                                    *)
(***************************************************************************)
C7_CursorMonotone ==
    /\ pc = "loop" => latestCursor >= cursor
    /\ pc = "done" => db.jetstream_cursor.cursor_time_us >= cursor

\* a cycle has committed after consuming an event below the loaded cursor
C7_Witness ==
    /\ pc = "done"
    /\ idx >= 2
    /\ event.time_us # 0
    /\ event.time_us < cursor
    /\ db.jetstream_cursor.cursor_time_us > cursor

(***************************************************************************)
(* C8.  The cursor never advances past a failed event: the cursor a cycle  *)
(* commits is below the time_us of every event of the cycle whose          *)
(* processing raised an error.                                             *)
(***************************************************************************)
C8_CursorStopsAtFailure ==
    pc = "done" =>
        \A t \in failedAt : t # 0 => db.jetstream_cursor.cursor_time_us < t

(***************************************************************************)
(* C9.  Relevance filtering: an event that is not a follow and has no      *)
(* subject, reply-parent, reply-root or quoted-record URI in the local     *)
(* namespace creates no federated_interactions record, changes no counter  *)
(* and creates no notification.                                            *)
(***************************************************************************)
NoLocalReference(e) ==
    /\ e.collection # FOLLOW
    /\ e.record.subject_uri \notin Namespace
    /\ e.record.parent \notin Namespace
    /\ e.record.root \notin Namespace
    /\ e.record.embed \notin Namespace

C9_RelevanceFiltering ==
    [][(ConsumesEvent /\ NoLocalReference(event')) => MirrorUnchanged]_vars

\* an event was consumed that refers to a posts row outside the namespace
C9_Witness ==
    /\ idx >= 1
    /\ event.kind = "commit"
    /\ NoLocalReference(event)
    /\ \E p \in PostIds :
        db.posts[p].at_uri \in {event.record.subject_uri, event.record.embed}

(***************************************************************************)
(* C10.  Outbound failure leaves local state untouched: when the write to  *)
(* the PDS fails the caller gets the error and no table changes; the       *)
(* agent changes a table only after the PDS accepted the record.           *)
(***************************************************************************)
C10_OutboundFailure ==
    [][/\ (outbound' # outbound /\ outbound'.result = "error") =>
            (db' = db /\ pds' = pds)
       /\ (db' # db /\ idx' = idx /\ pc' = pc) =>
            (/\ outbound.at = "written"
             /\ outbound.uri \in pds
             /\ outbound'.result = "ok")]_vars

\* a repost failed at the PDS write and the error went back to the caller
C10_Witness ==
    /\ outbound.at = "idle"
    /\ outbound.action = "repost"
    /\ outbound.result = "error"
    /\ db.posts[LocalPost].reposts_count = InitCount
    /\ CountFor(db, "repost", LocalPost, 0) = 0

(***************************************************************************)
(* C11.  A failed run leaves the cursor unchanged and records the error:   *)
(* when the cursor load fails, or the stream answers with a status that is *)
(* not OK, or the request fails with an error that is not the timeout, the *)
(* cycle does not modify cursor_time_us, writes the error text to          *)
(* last_error and reports failure; a later cycle can start, and it starts  *)
(* from the same position.                                                 *)
(***************************************************************************)
StoredCursor == db.jetstream_cursor.cursor_time_us

C11_FailedRun ==
    /\ [][/\ (pc' = "failed" /\ (pc # "failed" \/ cycles' # cycles)) =>
                /\ StoredCursor' = StoredCursor
                /\ db'.jetstream_cursor.last_error # None
                /\ db'.jetstream_cursor.last_error = response'.error
                /\ ~response'.success
                /\ Snapshot(db') = Snapshot(db)
          /\ (pc = "failed" /\ pc' = "fetching") =>
                /\ db' = db
                /\ StoredCursor # 0 => cursor' = StoredCursor]_vars
    /\ []((pc = "failed" /\ cycles < MaxCycles) => ENABLED SendRequest)

\* the cycle after a failed one is processing events from the stored position
C11_Witness ==
    /\ cycles = 2
    /\ pc = "loop"
    /\ idx >= 1
    /\ db.jetstream_cursor.last_error = "Jetstream error"
    /\ cursor = StoredCursor

(***************************************************************************)
(* C13.  Every polling cycle terminates: whatever the stream does after    *)
(* the request is sent, the cycle ends by committing the cursor or by      *)
(* recording an error, and returns its report.                             *)
(***************************************************************************)
C13_CycleTerminates ==
    (pc = "fetching") ~> (pc \in {"done", "failed"})

(***************************************************************************)
(* C16.  A timeout is a normal end of batch: when the request is aborted   *)
(* by the timer the cycle does not fail; it goes on with the empty batch,  *)
(* commits a cursor that is not lower than the loaded one, clears          *)
(* last_error and reports success.                                         *)
(***************************************************************************)
C16_TimeoutIsNormal ==
    /\ [][/\ (fetch.state = "pending" /\ fetch'.state = "aborted") =>
                (pc' = "loop" /\ db' = db)
          /\ (fetch.state = "aborted" /\ pc = "loop" /\ pc' # "loop") =>
                /\ pc' = "done"
                /\ db'.jetstream_cursor.last_error = None
                /\ StoredCursor' >= cursor
                /\ response'.success
                /\ response'.eventsReceived = 0
                /\ Snapshot(db') = Snapshot(db)]_vars
    /\ []((fetch.state = "aborted" /\ pc = "loop") => ENABLED CommitCursor)

\* the second cycle, whose request timed out, has committed and changed nothing
C16_Witness ==
    /\ cycles = 2
    /\ pc = "done"
    /\ fetch.state = "aborted"
    /\ response.success
    /\ db.jetstream_cursor.last_error = None
    /\ StoredCursor = cursor
    /\ pre = Snapshot(db)

(***************************************************************************)
(* C14.  Profile cache contract: getBlueskyProfile makes no remote lookup  *)
(* when the cache holds an entry for the DID whose age is below the TTL    *)
(* and returns that entry; when the entry is missing or its age has        *)
(* reached the TTL it makes exactly one remote lookup, and when the lookup *)
(* answers it upserts the entry with a fresh cached_at and returns the     *)
(* fetched profile.                                                        *)
(***************************************************************************)
\* the notification added by a step that makes one call of getBlueskyProfile
\* (a post that both replies to and quotes local posts makes two calls, the
\* second of which sees the cache as the first left it)
Added(n) ==
    /\ BagCardinality(db'.notifications) = BagCardinality(db.notifications) + 1
    /\ CopiesIn(n, db'.notifications) > CopiesIn(n, db.notifications)

C14_ProfileCache ==
    /\ [](\A did \in Actors, ok \in BOOLEAN :
            LET got == getBlueskyProfile(db, did, ok)
            IN  IF db.bluesky_profile_cache[did] = "fresh"
                THEN got.lookups = 0 /\ got.actor = "cached" /\ got.db = db
                ELSE /\ got.lookups = 1
                     /\ ok => /\ got.actor = "fetched"
                              /\ got.db.bluesky_profile_cache[did] = "fresh"
                              /\ \A other \in Actors \ {did} :
                                    got.db.bluesky_profile_cache[other] =
                                        db.bluesky_profile_cache[other])
    /\ [][ConsumesEvent =>
            \A n \in BagToSet(db'.notifications) : Added(n) =>
                IF db.bluesky_profile_cache[n.actor_did] = "fresh"
                THEN /\ n.actor_handle = "handle"
                     /\ n.actor_display_name = None
                     /\ db'.bluesky_profile_cache = db.bluesky_profile_cache
                ELSE \/ /\ n.actor_display_name = "displayName"
                        /\ db'.bluesky_profile_cache[n.actor_did] = "fresh"
                     \/ /\ n.actor_handle = "did.slice(0,20)"
                        /\ db'.bluesky_profile_cache = db.bluesky_profile_cache]_vars

\* one notification was built from a fetched profile, a later one from the
\* cache entry the fetch left, and a third after that entry had expired
C14_Witness ==
    /\ \E n1, n2 \in BagToSet(db.notifications) :
        /\ n1.actor_display_name = "displayName"
        /\ n2.actor_handle = "handle"
        /\ n2.actor_display_name = None
        /\ n1.actor_did = n2.actor_did
    /\ BagCardinality(db.notifications) = 3
    /\ db.bluesky_profile_cache[ActorDid] = "stale"

(***************************************************************************)
(* C15.  Retraction is supported for every interaction type: a delete      *)
(* event for a key under which a like, repost, reply, quote or follow      *)
(* record is stored removes that record and decrements the counter it was  *)
(* counted in; the delete of a remote post removes the reply record and    *)
(* the quote record stored for it.                                         *)
(***************************************************************************)
\* the records stored for the remote record an event names
StoredFor(d, e) ==
    {r \in BagToSet(d.federated_interactions) :
        r.at_uri \in {Key(e), QuoteUri(Key(e))}}

C15_RetractionEveryType ==
    [][(ConsumesEvent /\ event'.operation = "delete") =>
        \A r \in StoredFor(db, event') :
            /\ CountAt(db', r.at_uri) = 0
            /\ Counter(db', r.interaction_type, r.post_id, r.target_user_id) =
                 Counter(db, r.interaction_type, r.post_id, r.target_user_id) - 1]_vars

(***************************************************************************)
(* C18.  A delete is resolved by idempotency key alone: a like, repost or  *)
(* follow delete for key K retracts the record stored under K and          *)
(* decrements the counter of the subject that record was stored against,   *)
(* whether or not the event carries a record body.                         *)
(***************************************************************************)
C18_DeleteByKey ==
    [][(/\ ConsumesEvent
        /\ event'.operation = "delete"
        /\ event'.collection \in {LIKE, REPOST, FOLLOW}
        /\ CountAt(db, Key(event')) = 1)
       => \E r \in RowsAt(db, Key(event')) :
            /\ db'.federated_interactions =
                 db.federated_interactions (-) SetToBag({r})
            /\ Counter(db', r.interaction_type, r.post_id, r.target_user_id) =
                 Counter(db, r.interaction_type, r.post_id, r.target_user_id) - 1]_vars

(***************************************************************************)
(* C19.  Unresolvable references are dropped silently: a like, repost,     *)
(* reply or quote whose target URI matches no local post, and a follow     *)
(* whose followed DID matches no local profile, creates no record, changes *)
(* no counter, creates no notification, raises no error and leaves the     *)
(* loop running for the later events of the batch.                         *)
(***************************************************************************)
PostUris(d) == {d.posts[p].at_uri : p \in PostIds}
ProfileDids(d) == {d.profiles[u].did : u \in ProfileIds}

Unresolvable(d, e) ==
    /\ e.kind = "commit"
    /\ e.record.has
    /\ IF e.collection \in {LIKE, REPOST}
       THEN e.record.subject_uri \in Uris \ PostUris(d)
       ELSE IF e.collection = POST
       THEN /\ {e.record.parent, e.record.embed} \cap PostUris(d) = {}
            /\ {e.record.parent, e.record.embed} \cap Uris # {}
       ELSE e.record.subject_did \notin ProfileDids(d)

C19_UnresolvableDropped ==
    [][(ConsumesEvent /\ Unresolvable(db, event')) =>
        /\ MirrorUnchanged
        /\ failedAt' = failedAt
        /\ pc' = "loop"]_vars

\* a like of a URI inside the namespace that no post has, or a follow of a
\* DID that no profile has, was consumed as the second event of a cycle, and
\* the loop is still running
C19_Witness ==
    /\ idx = 2
    /\ pc = "loop"
    /\ failedAt = {}
    /\ Unresolvable(db, event)
    /\ event.record.subject_uri = GoneUri \/ event.record.subject_did = UnknownDid
    /\ BagCardinality(db.federated_interactions) = 1
    /\ BagCardinality(db.notifications) = 1

(***************************************************************************)
(* C20.  Irrelevant events are not counted: the eventsProcessed of a cycle *)
(* is not increased by an event with no local reference, nor by a follow   *)
(* whose followed identity maps to no local profile.                       *)
(***************************************************************************)
C20_IrrelevantNotCounted ==
    [][(/\ ConsumesEvent
        /\ \/ NoLocalReference(event')
           \/ /\ event'.kind = "commit"
              /\ event'.collection = FOLLOW
              /\ event'.record.subject_did \notin ProfileDids(db))
       => processedCount' = processedCount]_vars

(***************************************************************************)
(* C12.  Concurrent re-delivery does not double count: when two            *)
(* invocations handle creates with the same idempotency key side by side,  *)
(* both possibly passing the existence check before either inserts, at     *)
(* most one of them inserts the record and the counter is incremented at   *)
(* most once.                                                              *)
(***************************************************************************)
\* no handler is between its existence check and its increment
Quiet == \A i \in Runs : runs[i].at \in {"idle", "loop", "done"}

C12_ConcurrentRedelivery ==
    /\ \A e \in stream : CountAt(db, Key(e)) <= 1
    /\ \A s \in Subjects :
        /\ Counter(db, s.type, s.post, s.user) <=
              InitCount + CountFor(db, s.type, s.post, s.user)
        /\ CountFor(db, s.type, s.post, s.user) <= 1
        /\ Quiet => Counter(db, s.type, s.post, s.user) =
                      InitCount + CountFor(db, s.type, s.post, s.user)

\* both invocations passed the existence check for the same key, the insert of
\* one was refused, and both have finished
C12_Witness ==
    /\ \A i \in Runs : runs[i].at = "done"
    /\ \E i, j \in Runs :
        /\ i # j
        /\ runs[i].insertError
        /\ ~runs[j].insertError
        /\ Key(runs[i].event) = Key(runs[j].event)
        /\ CountAt(db, Key(runs[i].event)) = 1
    /\ delivered = 2
    /\ \E s \in Subjects : Counter(db, s.type, s.post, s.user) = InitCount + 1

(***************************************************************************)
(* C17.  No overlapping cycles: at any time at most one invocation is      *)
(* between loading the cursor and committing it.                           *)
(***************************************************************************)
C17_NoOverlap ==
    Cardinality({i \in Runs : runs[i].at \notin {"idle", "done"}}) <= 1

(***************************************************************************)
(* C21.  One bad event does not abort the batch: a line that is not valid  *)
(* JSON is left out, an event whose processing throws is skipped, every    *)
(* other event of the body is processed, in the order of the lines, and    *)
(* the cycle reports success.                                              *)
(***************************************************************************)
\* the events of the well-formed data lines of a body, in the order of the lines
RECURSIVE WellFormed(_)
WellFormed(t) ==
    IF t = <<>> THEN <<>>
    ELSE IF Head(t).data /\ Head(t).json
    THEN <<Head(t).event>> \o WellFormed(Tail(t))
    ELSE WellFormed(Tail(t))

\* the tables after the events were applied one after the other, the events
\* whose processing throws and the irrelevant ones left out
RECURSIVE AppliedInOrder(_, _)
AppliedInOrder(d, es) ==
    IF es = <<>> THEN d
    ELSE AppliedInOrder(
            IF RelevanceThrows(Head(es)) \/ ~isRelevantToCannect(Head(es))
            THEN d
            ELSE processEvent(d, TRUE, Head(es)),
            Tail(es))

\* the tables as they stood when the cycle started
AtCycleStart ==
    [db EXCEPT !.posts = pre.posts, !.profiles = pre.profiles,
               !.federated_interactions = pre.federated_interactions]

C21_BadEventSkipped ==
    /\ [][(ConsumesEvent /\ RelevanceThrows(event')) =>
            (pc' = "loop" /\ db' = db /\ event' = WellFormed(text)[idx'])]_vars
    /\ [](pc = "loop" => ENABLED (ProcessLine \/ CommitBatch))
    /\ [](pc = "done" =>
            /\ response.success
            /\ response.eventsReceived = Len(WellFormed(text))
            /\ db.jetstream_cursor.last_error = None
            /\ Snapshot(db) = Snapshot(AppliedInOrder(AtCycleStart, WellFormed(text))))

\* a body of a malformed line, an event that throws and a like of the local
\* post was received; the like is stored and the cycle has reported success
C21_Witness ==
    /\ pc = "done"
    /\ Len(text) = 3
    /\ text[1] = MalformedLine
    /\ text[2].data /\ text[2].json /\ RelevanceThrows(text[2].event)
    /\ text[3].data /\ text[3].json /\ text[3].event.operation = "create"
    /\ CountAt(db, Key(text[3].event)) = 1
    /\ CountAt(pre, Key(text[3].event)) = 0
    /\ failedAt # {}
    /\ response.success
    /\ response.eventsReceived = 2
    /\ response.eventsProcessed = 1

(***************************************************************************)
(* C22.  Insert failures are classified: when the insert of a mirror       *)
(* record fails because a record with the key exists, the event is a       *)
(* silent no-op (no increment, no notification, the handler returns); when *)
(* it fails for another storage reason the error leaves the handler: the   *)
(* loop catches it and the event is not counted as processed.              *)
(***************************************************************************)
C22_InsertClassified ==
    [][\A i \in Runs :
        (runs[i].at = "insert" /\ runs'[i].at = "loop") =>
            /\ MirrorUnchanged
            /\ runs'[i].processedCount = runs[i].processedCount +
                (IF Existing(db, Target(db, runs[i].event).uri) THEN 1 ELSE 0)]_vars

(***************************************************************************)
(* C23.  Reply and quote in one event: a post create that both replies to  *)
(* a local post and quotes a local post leaves two interaction records     *)
(* with distinct keys, the record URI for the reply and the record URI     *)
(* with '#quote' appended for the quote, increments replies_count of the   *)
(* parent and quotes_count of the quoted post once each, and when it is    *)
(* delivered again it adds neither a record nor an increment.              *)
(***************************************************************************)
\* the key of the quote record of a post event
QuoteKey(e) == <<e.did, e.collection, e.rkey, "#quote">>

RepliesAndQuotes(e) ==
    /\ e.kind = "commit"
    /\ e.collection = POST
    /\ e.operation = "create"
    /\ e.record.parent \in PostUris(db) \cap Namespace
    /\ e.record.embed \in PostUris(db) \cap Namespace

C23_ReplyAndQuote ==
    [][(ConsumesEvent /\ RepliesAndQuotes(event')) =>
        LET parent == FindPost(db, event'.record.parent)
            quoted == FindPost(db, event'.record.embed)
            replyRow == InteractionRow("reply", parent, 0, event'.did, Key(event'))
            quoteRow == InteractionRow("quote", quoted, 0, event'.did, QuoteKey(event'))
            new == CountAt(db, Key(event')) = 0
        IN  /\ Key(event') # QuoteKey(event')
            /\ RowsAt(db', Key(event')) = {replyRow}
            /\ RowsAt(db', QuoteKey(event')) = {quoteRow}
            /\ CopiesIn(replyRow, db'.federated_interactions) = 1
            /\ CopiesIn(quoteRow, db'.federated_interactions) = 1
            /\ CountAt(db, QuoteKey(event')) = CountAt(db, Key(event'))
            /\ db'.posts[parent].replies_count =
                 db.posts[parent].replies_count + (IF new THEN 1 ELSE 0)
            /\ db'.posts[quoted].quotes_count =
                 db.posts[quoted].quotes_count + (IF new THEN 1 ELSE 0)
            /\ BagCardinality(db'.notifications) =
                 BagCardinality(db.notifications) + (IF new THEN 2 ELSE 0)
            /\ ~new => MirrorUnchanged]_vars

\* the post that replies and quotes was processed in the first cycle and
\* delivered again in the second
C23_Witness ==
    /\ cycles = 2
    /\ idx >= 1
    /\ RepliesAndQuotes(event)
    /\ CountAt(pre, Key(event)) = 1
    /\ CountAt(pre, QuoteKey(event)) = 1
    /\ CountAt(db, Key(event)) = 1
    /\ CountAt(db, QuoteKey(event)) = 1
    /\ db.posts[LocalPost].replies_count = InitCount + 1
    /\ db.posts[LocalPost].quotes_count = InitCount + 1
    /\ BagCardinality(db.notifications) = 2

(***************************************************************************)
(* C24.  Update operations are no-ops: an event whose operation is neither *)
(* create nor delete, on any collection, creates and deletes no            *)
(* interaction record, changes no counter and creates no notification.     *)
(***************************************************************************)
C24_UpdateNoOp ==
    [][(/\ ConsumesEvent
        /\ event'.kind = "commit"
        /\ event'.operation \notin {"create", "delete"})
       => MirrorUnchanged]_vars

\* an update was consumed as the third event of a cycle, after the create of
\* its record had been mirrored; the mirror holds what the create left
C24_Witness ==
    /\ idx = 3
    /\ event.operation = "update"
    /\ CountAt(db, Key(event)) = 1
    /\ BagCardinality(db.federated_interactions) = 1
    /\ BagCardinality(db.notifications) = 1
    /\ processedCount = 3
    /\ \E s \in Subjects :
        /\ Counter(db, s.type, s.post, s.user) = InitCount + 1
        /\ \A o \in Subjects \ {s} : Counter(db, o.type, o.post, o.user) = InitCount

(***************************************************************************)
(* C25.  In-cycle ordering: within one cycle the events are applied one at *)
(* a time in the order of arrival, so that when the last two events of a   *)
(* cycle for one key are a create followed by a delete the record is       *)
(* absent at the end of the cycle, and when they are a delete followed by  *)
(* a create the record is present.                                         *)
(***************************************************************************)
\* the positions in a batch of the creates and deletes of one key
PositionsOf(es, key) ==
    {k \in 1..Len(es) : Key(es[k]) = key /\ es[k].operation \in {"create", "delete"}}

Latest(P) == CHOOSE k \in P : \A j \in P : j <= k

C25_InCycleOrdering ==
    /\ [][ConsumesEvent => event' = WellFormed(text)[idx']]_vars
    /\ [](pc = "done" =>
            \A e \in stream :
                LET es == WellFormed(text)
                    P == PositionsOf(es, Key(e))
                IN  Cardinality(P) >= 2 =>
                        LET k == Latest(P)
                            j == Latest(P \ {k})
                        IN  /\ (es[j].operation = "create" /\ es[k].operation = "delete")
                                => CountAt(db, Key(e)) = 0
                            /\ (es[j].operation = "delete" /\ es[k].operation = "create")
                                => CountAt(db, Key(e)) = 1)

(***************************************************************************)
(* C26.  Actor enrichment never blocks interaction processing: when the    *)
(* remote profile lookup fails, getBlueskyProfile returns null and the     *)
(* create event is applied in full: the record is stored, the counter is   *)
(* incremented, and a notification is created whose handle is the          *)
(* placeholder cut from the actor DID.                                     *)
(***************************************************************************)
\* the notification of an interaction whose actor could not be resolved
Placeholder(d, e, i) ==
    [user_id |-> IF i.type = "follow" THEN i.user ELSE d.posts[i.post].user_id,
     actor_did |-> e.did, actor_handle |-> "did.slice(0,20)",
     actor_display_name |-> None, actor_avatar |-> None,
     reason |-> i.type, post_id |-> i.post, is_external |-> TRUE]

\* the cache had no usable entry for the actor and has none after the step:
\* the lookups made in the step failed
LookupFailed(e) ==
    /\ db.bluesky_profile_cache[e.did] # "fresh"
    /\ db'.bluesky_profile_cache[e.did] # "fresh"

C26_EnrichmentNeverBlocks ==
    /\ [](\A did \in Actors :
            db.bluesky_profile_cache[did] # "fresh" =>
                /\ getBlueskyProfile(db, did, FALSE).actor = "null"
                /\ getBlueskyProfile(db, did, FALSE).db = db)
    /\ [][(/\ ConsumesEvent
           /\ event'.operation = "create"
           /\ LookupFailed(event')
           /\ Interactions(event') # {}
           /\ \A i \in Interactions(event') : CountAt(db, i.uri) = 0)
          => /\ \A i \in Interactions(event') :
                /\ CountAt(db', i.uri) = 1
                /\ Counter(db', i.type, i.post, i.user) =
                     Counter(db, i.type, i.post, i.user) + 1
                /\ CopiesIn(Placeholder(db, event', i), db'.notifications) =
                     CopiesIn(Placeholder(db, event', i), db.notifications) + 1
             /\ BagCardinality(db'.notifications) =
                  BagCardinality(db.notifications) + Cardinality(Interactions(event'))
             /\ failedAt' = failedAt
             /\ processedCount' = processedCount + 1]_vars

\* the first create of a behaviour was applied although the lookup of its
\* actor failed: its record and its one notification, with the placeholder
\* handle, are stored and nothing is cached
C26_Witness ==
    /\ idx >= 1
    /\ event.operation = "create"
    /\ Interactions(event) # {}
    /\ \A i \in Interactions(event) :
        /\ CountAt(db, i.uri) = 1
        /\ CountAt(pre, i.uri) = 0
        /\ Counter(db, i.type, i.post, i.user) = InitCount + 1
        /\ BagIn(Placeholder(db, event, i), db.notifications)
    /\ BagCardinality(db.notifications) = 1
    /\ db.bluesky_profile_cache[event.did] = "absent"

(***************************************************************************)
(* C27.  Stale cache entries remain usable: when the cache holds an entry  *)
(* for an actor whose age has reached the TTL and the remote refresh       *)
(* fails, resolution yields the entry, and the notification built from it  *)
(* carries the entry's handle and avatar, not the placeholder.             *)
(***************************************************************************)
C27_StaleEntryUsable ==
    /\ [](\A did \in Actors :
            db.bluesky_profile_cache[did] = "stale" =>
                getBlueskyProfile(db, did, FALSE).actor = "cached")
    /\ [][ConsumesEvent =>
            \A n \in BagToSet(db'.notifications) :
                (Added(n) /\ db.bluesky_profile_cache[n.actor_did] = "stale") =>
                    (n.actor_handle = "handle" /\ n.actor_avatar = "avatar")]_vars

(***************************************************************************)
(* C30.  Cache hit and cache miss are equivalent for the notification: the *)
(* notifications written for one actor, whose profile data does not        *)
(* change, have the same actor_handle, actor_display_name and actor_avatar *)
(* whether the actor was resolved from a fresh cache entry or by a remote  *)
(* lookup.                                                                 *)
(***************************************************************************)
\* the notification was built from a resolved actor, not from null
Resolved(n) == n.actor_handle # "did.slice(0,20)"

C30_HitMissEquivalent ==
    \A n1, n2 \in BagToSet(db.notifications) :
        (n1.actor_did = n2.actor_did /\ Resolved(n1) /\ Resolved(n2)) =>
            /\ n1.actor_handle = n2.actor_handle
            /\ n1.actor_display_name = n2.actor_display_name
            /\ n1.actor_avatar = n2.actor_avatar

(***************************************************************************)
(* C29.  Insert and increment are recoverable as a pair: when the          *)
(* increment of a create failed, or the invocation ended between the       *)
(* insert and the increment, then once a later cycle has been delivered    *)
(* the event again the counter has been incremented exactly once for the   *)
(* record: the record is not left without its increment.                   *)
(***************************************************************************)
\* the other invocations have ended, by their commit or by an interruption
OthersEnded(i) == \A j \in Runs \ {i} : runs[j].at \in {"done", "dead"}

\* invocation i finds the record of its create event stored: the event was
\* delivered before
Redelivered(i) == runs[i].at = "check" /\ runs'[i].at = "loop"

C29_InsertIncrementRecoverable ==
    [][\A i \in Runs :
        (Redelivered(i) /\ OthersEnded(i)) =>
            LET t == Target(db, runs[i].event)
            IN  Counter(db', t.type, t.post, t.user) =
                    InitCount + CountFor(db', t.type, t.post, t.user)]_vars

(***************************************************************************)
(* C28.  Create ordering and notification uniqueness: for a create event   *)
(* the record is inserted, then the counter is incremented, then the       *)
(* notification is emitted; a notification is emitted only by an           *)
(* invocation that has itself inserted the record of the event, so that    *)
(* over all the deliveries of one key at most one notification is created  *)
(* for it.                                                                 *)
(***************************************************************************)
\* the row a create event stores
RowOf(d, e) ==
    LET t == Target(d, e)
    IN  InteractionRow(t.type, t.post, t.user, e.did, t.uri)

\* number of notifications written for an actor and a reason
NotificationCount(d, did, reason) ==
    LET ns == {n \in BagToSet(d.notifications) :
                  n.actor_did = did /\ n.reason = reason}
    IN  BagCardinality([n \in ns |-> d.notifications[n]])

Counters(d) == [s \in Subjects |-> Counter(d, s.type, s.post, s.user)]

\* C28, its conclusion as the claim states it: over all the deliveries of a
\* key at most one notification is created for it.  (Each key of the stream
\* has an interaction type of its own, so the notifications of a key are
\* those of its actor and type.)
C28_OneNotificationPerKey ==
    \A e \in stream :
        Target(db, e).ok =>
            NotificationCount(db, e.did, Target(db, e).type) <= 1

\* C28, amended: the record is inserted, then the counter incremented, then
\* the notification emitted, each by the step of its own and by the
\* invocation that inserted the record; a delivery that finds the record of
\* its key stored changes nothing and emits no notification.
C28_CreateOrdering ==
    [][/\ \A i \in Runs :
            /\ (runs'[i].at = "increment" /\ runs[i].at # "increment") =>
                    /\ runs[i].at = "insert"
                    /\ CopiesIn(RowOf(db, runs[i].event), db'.federated_interactions) =
                         CopiesIn(RowOf(db, runs[i].event), db.federated_interactions) + 1
                    /\ Counters(db') = Counters(db)
                    /\ db'.notifications = db.notifications
            /\ (runs'[i].at = "notify" /\ runs[i].at # "notify") =>
                    /\ runs[i].at = "increment"
                    /\ db'.federated_interactions = db.federated_interactions
                    /\ db'.notifications = db.notifications
            /\ Redelivered(i) => db' = db
       /\ db'.notifications # db.notifications =>
            \E i \in Runs :
                /\ runs[i].at = "notify"
                /\ runs'[i].at = "loop"
                /\ NotificationCount(db', runs[i].event.did,
                                     Target(db, runs[i].event).type) =
                     NotificationCount(db, runs[i].event.did,
                                       Target(db, runs[i].event).type) + 1
                /\ BagCardinality(db'.notifications) =
                     BagCardinality(db.notifications) + 1
                /\ Snapshot(db') = Snapshot(db)
       /\ BagCardinality(db'.federated_interactions) >
          BagCardinality(db.federated_interactions) =>
            \E i \in Runs : runs[i].at = "insert" /\ runs'[i].at = "increment"
       /\ (\E s \in Subjects : Counters(db')[s] > Counters(db)[s]) =>
            \E i \in Runs : runs[i].at = "increment" /\ runs'[i].at = "notify"]_vars

\* a create was mirrored and notified by one invocation and delivered again
\* to the other, which found the record and has emitted nothing
C28_Witness ==
    /\ delivered = 2
    /\ \A i \in Runs : runs[i].at \in {"loop", "done"}
    /\ \A i \in Runs : runs[i].processedCount = 1 /\ ~runs[i].insertError
    /\ runs[1].event = runs[2].event
    /\ Target(db, runs[1].event).ok
    /\ CountAt(db, Key(runs[1].event)) = 1
    /\ BagCardinality(db.notifications) = 1
    /\ \E s \in Subjects : Counters(db)[s] = InitCount + 1

====
